---- MODULE Spec2Model ----
(***************************************************************************)
(* Ephemeral vault.  The on-chain program (programs/ephemeral_vault) is a  *)
(* state machine over one vault address, its delegation address and the    *)
(* lamport balances of the accounts involved.  One action per instruction; *)
(* an instruction is a whole transaction: account validation (the          *)
(* #[derive(Accounts)] constraints), the handler body and the exit         *)
(* constraint (close) are one atomic step, and a failing instruction       *)
(* leaves every account as it was.  The backend service (backend/src) is   *)
(* modelled beside it: the sessions table and the HTTP handlers, the vault *)
(* monitor, and the custody codec.                                         *)
(***************************************************************************)
EXTENDS Integers, Sequences, FiniteSets, TLC

VARIABLES now, vault, delegation, lamports, last, created, was_inactive

\* the ledger program's state
vars == <<now, vault, delegation, lamports, last, created, was_inactive>>

\* the backend service: the sessions table, the request handlers in flight, the
\* number of requests accepted, the broadcast feed, the statements the database
\* applied (history), the monitor's heartbeat, and the custody codec's values
VARIABLES sessions, handler, served, feed, applied, heartbeat, codec

\* the deposit request in flight at POST /session/deposit, its response, the
\* amount produced for it, and the last result of the fee calculator
VARIABLES deposit

mirror_vars == <<sessions, handler, served, feed, applied, heartbeat>>

backend_vars == <<sessions, handler, served, feed, applied, heartbeat, codec, deposit>>

all_vars == <<now, vault, delegation, lamports, last, created, was_inactive,
              sessions, handler, served, feed, applied, heartbeat, codec, deposit>>

(***************************************************************************)
(* Bounds of the model.                                                    *)
(***************************************************************************)
\* u64::MAX, scaled: checked_add on u64 fails above this value.
MaxU64 == 50000
\* i64::MAX, scaled: checked_add on i64 fails above this value.
MaxI64 == 2
\* last value of the cluster clock (Clock::get()?.unix_timestamp)
MaxTime == 2
\* Rent::get()?.minimum_balance(..) of the vault account
RentFloor == 2000
\* Rent::get()?.minimum_balance(..) of the delegation account
DelegationRent == 1000
\* how many times create_vault may succeed in a run (the counter `created`)
MaxVaults == 2
\* lamports the parent wallet starts with
ParentFunds == 21000
\* lamports the third party starts with
OtherFunds == 3000

(***************************************************************************)
(* Identities and addresses.                                               *)
(***************************************************************************)
\* wallets: the parent, the ephemeral wallet, a third party
Keys == {"P", "E", "M"}
\* the address derived from seeds [b"vault", P, E]
VaultAddr == "V"
\* the address derived from seeds [b"delegation", VaultAddr]
DelegAddr == "D"
Accounts == Keys \cup {VaultAddr, DelegAddr}

\* inputs of the instructions
Durations == {-1, 1, MaxI64}
MaxDeposits == {12000, MaxU64}
Amounts == {0, 6000, 12000, MaxU64}
Fees == {0, 12000, MaxU64}

\* Option<T>: None is <<>>, Some(x) is <<x>>
None == <<>>
Some(x) == <<x>>
IsSome(o) == o # <<>>
Unwrap(o) == o[1]

\* const MAX_CLEANUP_REWARD_LAMPORTS
MAX_CLEANUP_REWARD_LAMPORTS == 10000

Min(a, b) == IF a <= b THEN a ELSE b

\* u64::checked_add / i64::checked_add: None on overflow
checked_add_u64(a, b) == IF a + b > MaxU64 THEN None ELSE Some(a + b)
checked_add_i64(a, b) == IF a + b > MaxI64 THEN None ELSE Some(a + b)
\* u64::checked_sub: None on underflow
checked_sub(a, b) == IF a < b THEN None ELSE Some(a - b)

NoEvent == [name |-> "None"]

\* the outcome of a transaction: instruction, error code, emitted event
Outcome(op, err, ev) ==
    [op |-> op, err |-> err, event |-> IF err = "Ok" THEN ev ELSE NoEvent]

\* the session ids the mirror can hand out (Uuid::new_v4, scaled)
MaxSessions == 1

SessionIds == 1..MaxSessions

\* a session id no create_session ever handed out
UnknownSession == 0

\* the ids a request can name: a session that exists, or one that never did (a
\* fresh Uuid never equals an id some earlier request carried)
KnownIds(store) == {id \in SessionIds : IsSome(store[id])} \cup {UnknownSession}

\* concurrent request handlers (tokio tasks serving requests at the same time)
MaxHandlers == 2

Handlers == 1..MaxHandlers

\* requests the service accepts in one behaviour
MaxRequests == 3

\* a handler with no request in flight
Idle == [pc |-> "idle"]

\* no keypair chosen, nothing sealed
NoCodec == [pc |-> "none"]

\* no deposit request received, no call of the calculator made
NoDeposit ==
    [pc |-> "idle", request |-> <<>>, response |-> <<>>, amount |-> <<>>,
     computed |-> <<>>]

\* the backend before any request: an empty sessions table, idle handlers, an
\* empty feed, no key sealed
InitMirror ==
    /\ sessions = [id \in SessionIds \cup {UnknownSession} |-> None]
    /\ handler = [h \in Handlers |-> Idle]
    /\ served = 0
    /\ feed = <<>>
    /\ applied = <<>>
    /\ heartbeat = 0

InitBackend == InitMirror /\ codec = NoCodec /\ deposit = NoDeposit

\* was_inactive is a history variable: the vault address has held a record with
\* is_active = false.
InitLedger ==
    /\ now = 0
    /\ vault = None
    /\ delegation = None
    /\ lamports = [a \in Accounts |->
                      IF a = "P" THEN ParentFunds
                      ELSE IF a = "M" THEN OtherFunds ELSE 0]
    /\ last = Outcome("none", "Ok", NoEvent)
    /\ created = 0
    /\ was_inactive = FALSE

\* the state after deployment: no vault, no session
Init == InitLedger /\ InitBackend

\* the clock of the execution environment advances
Tick ==
    /\ now < MaxTime
    /\ now' = now + 1
    /\ UNCHANGED <<vault, delegation, lamports, last, created, was_inactive>>
    /\ UNCHANGED backend_vars

(***************************************************************************)
(* create_vault                                                            *)
(***************************************************************************)
\* mutant: the vault account is created without the in-use check of init
CreateVaultAccountsErr_NoInUse(parent) ==
    IF lamports[parent] < RentFloor THEN "InsufficientFunds" ELSE "Ok"

\* CreateVault accounts: init of the vault at the derived address, payer = parent
CreateVaultAccountsErr(parent) ==
    IF IsSome(vault) THEN "AlreadyInUse"
    ELSE IF lamports[parent] < RentFloor THEN "InsufficientFunds"
    ELSE "Ok"

\* mutant: init_if_needed instead of init, an existing record is initialised again
create_vault_err_Reinit(parent, session_duration) ==
    IF lamports[parent] < RentFloor THEN "InsufficientFunds"
    ELSE IF checked_add_i64(now, session_duration) = None THEN "MathOverflow"
    ELSE "Ok"

create_vault_err(parent, session_duration) ==
    IF CreateVaultAccountsErr(parent) # "Ok" THEN CreateVaultAccountsErr(parent)
    ELSE IF checked_add_i64(now, session_duration) = None THEN "MathOverflow"
    ELSE "Ok"

create_vault(parent, session_duration, max_deposit, ephemeral_wallet) ==
    LET err == create_vault_err(parent, session_duration)
        rec == [parent_wallet |-> parent,
                ephemeral_wallet |-> ephemeral_wallet,
                session_start |-> now,
                session_expiry |-> now + session_duration,
                is_active |-> TRUE,
                total_deposited |-> 0,
                total_spent |-> 0,
                max_deposit |-> max_deposit]
        ev == [name |-> "VaultCreated", parent |-> parent,
               ephemeral_wallet |-> ephemeral_wallet, max_deposit |-> max_deposit,
               session_start |-> now, session_expiry |-> now + session_duration]
    IN /\ last' = Outcome("create_vault", err, ev)
       /\ IF err = "Ok"
          THEN /\ vault' = Some(rec)
               /\ lamports' = [lamports EXCEPT ![parent] = @ - RentFloor,
                                               ![VaultAddr] = @ + RentFloor]
               /\ created' = created + 1
          ELSE UNCHANGED <<vault, lamports, created>>
       /\ UNCHANGED <<now, delegation, was_inactive>>

CreateVault ==
    /\ created < MaxVaults
    /\ \E d \in Durations, m \in MaxDeposits, e \in {"E"} :
          create_vault("P", d, m, e)
    /\ UNCHANGED backend_vars

(***************************************************************************)
(* approve_delegate                                                        *)
(***************************************************************************)
\* ApproveDelegate accounts: the vault is loaded, the delegation is init'ed at its
\* derived address with payer = parent.  The struct has no parent_wallet account
\* for has_one to compare with, so the signer is taken as unconstrained.
\* mutant: init_if_needed, an existing delegation record is initialised again
ApproveDelegateAccountsErr_Reinit(parent) ==
    IF ~IsSome(vault) THEN "AccountNotInitialized"
    ELSE IF lamports[parent] < DelegationRent THEN "InsufficientFunds"
    ELSE "Ok"

ApproveDelegateAccountsErr(parent) ==
    IF ~IsSome(vault) THEN "AccountNotInitialized"
    ELSE IF IsSome(delegation) THEN "AlreadyInUse"
    ELSE IF lamports[parent] < DelegationRent THEN "InsufficientFunds"
    ELSE "Ok"

approve_delegate_err(parent, delegate) ==
    IF ApproveDelegateAccountsErr(parent) # "Ok" THEN ApproveDelegateAccountsErr(parent)
    ELSE IF delegate # Unwrap(vault).ephemeral_wallet THEN "InvalidDelegate"
    ELSE "Ok"

approve_delegate(parent, delegate) ==
    LET err == approve_delegate_err(parent, delegate)
        rec == [vault |-> VaultAddr, delegate |-> delegate,
                approved_at |-> now, revoked_at |-> None]
        ev == [name |-> "DelegateApproved", delegate |-> delegate, approved_at |-> now]
    IN /\ last' = Outcome("approve_delegate", err, ev)
       /\ IF err = "Ok"
          THEN /\ delegation' = Some(rec)
               /\ lamports' = [lamports EXCEPT ![parent] = @ - DelegationRent,
                                               ![DelegAddr] = @ + DelegationRent]
          ELSE UNCHANGED <<delegation, lamports>>
       /\ UNCHANGED <<now, vault, created, was_inactive>>

ApproveDelegate ==
    /\ \E p \in {"P"}, d \in {"E", "M"} : approve_delegate(p, d)
    /\ UNCHANGED backend_vars

(***************************************************************************)
(* helpers of the handlers                                                 *)
(***************************************************************************)
\* mutant: the expiry comparison is dropped
ensure_vault_active_and_not_expired_NoExpiry(v) ==
    IF ~v.is_active THEN "VaultInactive" ELSE "Ok"

\* mutant: the expiry is looked at before is_active
ensure_vault_active_and_not_expired_ExpiryFirst(v) ==
    IF ~(now <= v.session_expiry) THEN "SessionExpired"
    ELSE IF ~v.is_active THEN "VaultInactive"
    ELSE "Ok"

ensure_vault_active_and_not_expired(v) ==
    IF ~v.is_active THEN "VaultInactive"
    ELSE IF ~(now <= v.session_expiry) THEN "SessionExpired"
    ELSE "Ok"

ensure_vault_not_already_inactive(v) ==
    IF ~v.is_active THEN "VaultInactive" ELSE "Ok"

(***************************************************************************)
(* auto_deposit_for_trade                                                  *)
(***************************************************************************)
\* AutoDeposit accounts: the vault is loaded; as in ApproveDelegate there is no
\* parent_wallet account, so the signer is taken as unconstrained.
AutoDepositAccountsErr ==
    IF ~IsSome(vault) THEN "AccountNotInitialized" ELSE "Ok"

\* mutant: the max_deposit comparison is dropped
auto_deposit_err_NoCap(parent, trade_fee_estimate) ==
    IF AutoDepositAccountsErr # "Ok" THEN AutoDepositAccountsErr
    ELSE LET v == Unwrap(vault)
             new_total == checked_add_u64(v.total_deposited, trade_fee_estimate)
         IN IF ensure_vault_active_and_not_expired(v) # "Ok"
               THEN ensure_vault_active_and_not_expired(v)
            ELSE IF new_total = None THEN "MathOverflow"
            ELSE IF lamports[parent] < trade_fee_estimate THEN "InsufficientFunds"
            ELSE "Ok"

auto_deposit_err(parent, trade_fee_estimate) ==
    IF AutoDepositAccountsErr # "Ok" THEN AutoDepositAccountsErr
    ELSE LET v == Unwrap(vault)
             new_total == checked_add_u64(v.total_deposited, trade_fee_estimate)
         IN IF ensure_vault_active_and_not_expired(v) # "Ok"
               THEN ensure_vault_active_and_not_expired(v)
            ELSE IF new_total = None THEN "MathOverflow"
            ELSE IF ~(Unwrap(new_total) <= v.max_deposit) THEN "OverDeposit"
            \* system_instruction::transfer from the signer
            ELSE IF lamports[parent] < trade_fee_estimate THEN "InsufficientFunds"
            ELSE "Ok"

\* mutant: the transfer is made before the checks and stays when they fail
auto_deposit_for_trade_NoRollback(parent, trade_fee_estimate) ==
    LET err == auto_deposit_err(parent, trade_fee_estimate)
        new_total == Unwrap(vault).total_deposited + trade_fee_estimate
        ev == [name |-> "AutoDeposit", amount |-> trade_fee_estimate,
               total_deposited |-> new_total]
    IN /\ last' = Outcome("auto_deposit", err, ev)
       /\ IF err \in {"Ok", "OverDeposit"} /\ lamports[parent] >= trade_fee_estimate
          THEN lamports' = [lamports EXCEPT ![parent] = @ - trade_fee_estimate,
                                            ![VaultAddr] = @ + trade_fee_estimate]
          ELSE UNCHANGED lamports
       /\ IF err = "Ok"
          THEN vault' = Some([Unwrap(vault) EXCEPT !.total_deposited = new_total])
          ELSE UNCHANGED vault
       /\ UNCHANGED <<now, delegation, created, was_inactive>>

auto_deposit_for_trade(parent, trade_fee_estimate) ==
    LET err == auto_deposit_err(parent, trade_fee_estimate)
        new_total == Unwrap(vault).total_deposited + trade_fee_estimate
        ev == [name |-> "AutoDeposit", amount |-> trade_fee_estimate,
               total_deposited |-> new_total]
    IN /\ last' = Outcome("auto_deposit", err, ev)
       /\ IF err = "Ok"
          THEN /\ lamports' = [lamports EXCEPT ![parent] = @ - trade_fee_estimate,
                                               ![VaultAddr] = @ + trade_fee_estimate]
               /\ vault' = Some([Unwrap(vault) EXCEPT !.total_deposited = new_total])
          ELSE UNCHANGED <<vault, lamports>>
       /\ UNCHANGED <<now, delegation, created, was_inactive>>

AutoDeposit ==
    /\ \E p \in {"P", "M"}, a \in Amounts : auto_deposit_for_trade(p, a)
    /\ UNCHANGED backend_vars

(***************************************************************************)
(* execute_trade                                                           *)
(***************************************************************************)
\* ExecuteTrade / RevokeAccess accounts: vault and delegation are loaded, and
\* has_one = parent_wallet compares vault.parent_wallet with the key of the
\* parent_wallet account (an UncheckedAccount, no signature needed).
VaultDelegationAccountsErr(parent_wallet) ==
    IF ~IsSome(vault) THEN "AccountNotInitialized"
    ELSE IF ~IsSome(delegation) THEN "AccountNotInitialized"
    ELSE IF Unwrap(vault).parent_wallet # parent_wallet THEN "ConstraintHasOne"
    ELSE "Ok"

\* mutant: the spending ceiling compares with max_deposit instead of total_deposited
execute_trade_err_CeilingIsCap(ephemeral, parent_wallet, fee_paid) ==
    IF VaultDelegationAccountsErr(parent_wallet) # "Ok"
       THEN VaultDelegationAccountsErr(parent_wallet)
    ELSE LET v == Unwrap(vault)
             d == Unwrap(delegation)
             new_spent == checked_add_u64(v.total_spent, fee_paid)
         IN IF ensure_vault_active_and_not_expired(v) # "Ok"
               THEN ensure_vault_active_and_not_expired(v)
            ELSE IF d.vault # VaultAddr THEN "InvalidDelegationAccount"
            ELSE IF ~(d.revoked_at = None) THEN "DelegationRevoked"
            ELSE IF d.delegate # ephemeral THEN "InvalidDelegate"
            ELSE IF new_spent = None THEN "MathOverflow"
            ELSE IF ~(Unwrap(new_spent) <= v.max_deposit)
               THEN "InsufficientVaultBalance"
            ELSE "Ok"

\* mutant: the revoked_at check is dropped
execute_trade_err_NoRevokedCheck(ephemeral, parent_wallet, fee_paid) ==
    IF VaultDelegationAccountsErr(parent_wallet) # "Ok"
       THEN VaultDelegationAccountsErr(parent_wallet)
    ELSE LET v == Unwrap(vault)
             d == Unwrap(delegation)
             new_spent == checked_add_u64(v.total_spent, fee_paid)
         IN IF ensure_vault_active_and_not_expired(v) # "Ok"
               THEN ensure_vault_active_and_not_expired(v)
            ELSE IF d.vault # VaultAddr THEN "InvalidDelegationAccount"
            ELSE IF d.delegate # ephemeral THEN "InvalidDelegate"
            ELSE IF new_spent = None THEN "MathOverflow"
            ELSE IF ~(Unwrap(new_spent) <= v.total_deposited)
               THEN "InsufficientVaultBalance"
            ELSE "Ok"

execute_trade_err(ephemeral, parent_wallet, fee_paid) ==
    IF VaultDelegationAccountsErr(parent_wallet) # "Ok"
       THEN VaultDelegationAccountsErr(parent_wallet)
    ELSE LET v == Unwrap(vault)
             d == Unwrap(delegation)
             new_spent == checked_add_u64(v.total_spent, fee_paid)
         IN IF ensure_vault_active_and_not_expired(v) # "Ok"
               THEN ensure_vault_active_and_not_expired(v)
            ELSE IF d.vault # VaultAddr THEN "InvalidDelegationAccount"
            ELSE IF ~(d.revoked_at = None) THEN "DelegationRevoked"
            ELSE IF d.delegate # ephemeral THEN "InvalidDelegate"
            ELSE IF new_spent = None THEN "MathOverflow"
            ELSE IF ~(Unwrap(new_spent) <= v.total_deposited)
               THEN "InsufficientVaultBalance"
            ELSE "Ok"

\* mutant: the fee is paid out of the vault to the delegate
execute_trade_PaysFee(ephemeral, parent_wallet, fee_paid) ==
    LET err == execute_trade_err(ephemeral, parent_wallet, fee_paid)
        new_spent == Unwrap(vault).total_spent + fee_paid
        ev == [name |-> "TradeExecuted", delegate |-> ephemeral,
               fee_paid |-> fee_paid, total_spent |-> new_spent]
    IN /\ last' = Outcome("execute_trade", err, ev)
       /\ IF err = "Ok"
          THEN /\ vault' = Some([Unwrap(vault) EXCEPT !.total_spent = new_spent])
               /\ lamports' = [lamports EXCEPT ![VaultAddr] = @ - fee_paid,
                                               ![ephemeral] = @ + fee_paid]
          ELSE UNCHANGED <<vault, lamports>>
       /\ UNCHANGED <<now, delegation, created, was_inactive>>

execute_trade(ephemeral, parent_wallet, fee_paid) ==
    LET err == execute_trade_err(ephemeral, parent_wallet, fee_paid)
        new_spent == Unwrap(vault).total_spent + fee_paid
        ev == [name |-> "TradeExecuted", delegate |-> ephemeral,
               fee_paid |-> fee_paid, total_spent |-> new_spent]
    IN /\ last' = Outcome("execute_trade", err, ev)
       /\ IF err = "Ok"
          THEN vault' = Some([Unwrap(vault) EXCEPT !.total_spent = new_spent])
          ELSE UNCHANGED vault
       /\ UNCHANGED <<now, delegation, lamports, created, was_inactive>>

ExecuteTrade ==
    /\ \E e \in {"E", "M"}, pw \in {"P", "M"}, f \in Fees : execute_trade(e, pw, f)
    /\ UNCHANGED backend_vars

(***************************************************************************)
(* revoke_access                                                           *)
(***************************************************************************)
\* `parent` is #[account(mut, signer)] AccountInfo: any signing account.
revoke_access_err(parent, parent_wallet) ==
    IF VaultDelegationAccountsErr(parent_wallet) # "Ok"
       THEN VaultDelegationAccountsErr(parent_wallet)
    ELSE ensure_vault_not_already_inactive(Unwrap(vault))

\* lamports of the vault above the rent-exempt minimum
Available(bal) ==
    IF bal[VaultAddr] > RentFloor
    THEN Unwrap(checked_sub(bal[VaultAddr], RentFloor))
    ELSE 0

\* mutant: the delegation record is left as it was
revoke_access_NoRevokedAt(parent, parent_wallet) ==
    LET err == revoke_access_err(parent, parent_wallet)
        amount == Available(lamports)
        ev == [name |-> "AccessRevoked", parent |-> parent, revoked_at |-> now]
    IN /\ last' = Outcome("revoke_access", err, ev)
       /\ IF err = "Ok"
          THEN /\ vault' = Some([Unwrap(vault) EXCEPT !.is_active = FALSE])
               /\ lamports' = [lamports EXCEPT ![VaultAddr] = @ - amount,
                                               ![parent] = @ + amount]
               /\ was_inactive' = TRUE
          ELSE UNCHANGED <<vault, lamports, was_inactive>>
       /\ UNCHANGED <<now, delegation, created>>

revoke_access(parent, parent_wallet) ==
    LET err == revoke_access_err(parent, parent_wallet)
        amount == Available(lamports)
        ev == [name |-> "AccessRevoked", parent |-> parent, revoked_at |-> now]
    IN /\ last' = Outcome("revoke_access", err, ev)
       /\ IF err = "Ok"
          THEN /\ vault' = Some([Unwrap(vault) EXCEPT !.is_active = FALSE])
               /\ delegation' = Some([Unwrap(delegation) EXCEPT !.revoked_at = Some(now)])
               /\ lamports' = [lamports EXCEPT ![VaultAddr] = @ - amount,
                                               ![parent] = @ + amount]
               /\ was_inactive' = TRUE
          ELSE UNCHANGED <<vault, delegation, lamports, was_inactive>>
       /\ UNCHANGED <<now, created>>

RevokeAccess ==
    /\ \E p \in {"P", "M"}, pw \in {"P", "M"} : revoke_access(p, pw)
    /\ UNCHANGED backend_vars

(***************************************************************************)
(* cleanup_vault                                                           *)
(***************************************************************************)
\* CleanupVault accounts: the vault is loaded with has_one = parent_wallet;
\* `parent` (the close target) is an unchecked mutable account and `cleaner`
\* any signer.
CleanupVaultAccountsErr(parent_wallet) ==
    IF ~IsSome(vault) THEN "AccountNotInitialized"
    ELSE IF Unwrap(vault).parent_wallet # parent_wallet THEN "ConstraintHasOne"
    ELSE "Ok"

\* mutant: the expiry requirement is dropped
cleanup_vault_err_NoExpiry(parent_wallet) == CleanupVaultAccountsErr(parent_wallet)

cleanup_vault_err(parent_wallet) ==
    IF CleanupVaultAccountsErr(parent_wallet) # "Ok"
       THEN CleanupVaultAccountsErr(parent_wallet)
    ELSE IF ~(now >= Unwrap(vault).session_expiry) THEN "SessionNotExpired"
    ELSE "Ok"

\* the reward of the cleaner
CleanupReward(available) == Min(available, MAX_CLEANUP_REWARD_LAMPORTS)

\* the balances after the handler's transfers (lib.rs 215-227)
CleanupPayout(bal, cleaner, parent) ==
    LET available == Available(bal)
        reward == CleanupReward(available)
        to_parent == available - reward
        b1 == [bal EXCEPT ![VaultAddr] = @ - available]
        b2 == [b1 EXCEPT ![cleaner] = @ + reward]
    IN [b2 EXCEPT ![parent] = @ + to_parent]

\* close = parent: on exit the remaining lamports of the vault go to `parent`
CloseAccount(bal, parent) ==
    [bal EXCEPT ![parent] = @ + bal[VaultAddr], ![VaultAddr] = 0]

cleanup_vault(cleaner, parent, parent_wallet) ==
    LET err == cleanup_vault_err(parent_wallet)
        available == Available(lamports)
        ev == IF lamports[VaultAddr] > RentFloor
              THEN [name |-> "VaultCleaned", parent |-> parent, cleaner |-> cleaner,
                    reward |-> CleanupReward(available)]
              ELSE NoEvent
    IN /\ last' = Outcome("cleanup_vault", err, ev)
       /\ IF err = "Ok"
          THEN /\ vault' = None
               /\ lamports' = CloseAccount(CleanupPayout(lamports, cleaner, parent), parent)
          ELSE UNCHANGED <<vault, lamports>>
       /\ UNCHANGED <<now, delegation, created, was_inactive>>

CleanupVault ==
    /\ \E c \in {"P", "M"}, p \in {"P", "M"}, pw \in {"P", "M"} : cleanup_vault(c, p, pw)
    /\ UNCHANGED backend_vars

Next ==
    \/ Tick
    \/ CreateVault
    \/ ApproveDelegate
    \/ AutoDeposit
    \/ ExecuteTrade
    \/ RevokeAccess
    \/ CleanupVault

\* the ledger program alone (the backend never touches it: it only builds
\* instructions for the caller)
Spec == Init /\ [][Next]_all_vars

(***************************************************************************)
(* The session mirror (backend): the sessions table behind SessionManager, *)
(* and the HTTP handlers of api.rs.  A handler is a task that runs between *)
(* awaits: accepting the request, each SQL statement and the broadcast of  *)
(* the event are separate steps, and the steps of different handlers       *)
(* interleave.  Each SQL statement is atomic.                              *)
(***************************************************************************)
\* the strings a request can carry where a public key is expected; "?" is not one
WalletStrings == {"P", "?"}

VaultStrings == {VaultAddr, "X", "?"}

\* session_duration_secs and max_deposit_lamports of a create request
SessionDurations == {1}

SessionDeposits == {12000}

\* str::parse::<Pubkey>()
ParsePubkey(str) == IF str = "?" THEN None ELSE Some(str)

\* the status column read back into SessionStatus
ParseStatus(column) ==
    CASE column = "CREATED" -> "Created"
      [] column = "ACTIVE" -> "Active"
      [] column = "REVOKED" -> "Revoked"
      [] column = "EXPIRED" -> "Expired"
      [] column = "CLEANED" -> "Cleaned"
      [] OTHER -> "Created"

\* the row INSERTed by SessionManager::create_session
NewRow(parent_wallet, ephemeral, session_duration_secs, max_deposit) ==
    [parent_wallet |-> parent_wallet,
     ephemeral_wallet |-> ephemeral,
     vault_pubkey |-> None,
     status |-> "CREATED",
     session_start |-> now,
     session_expiry |-> now + session_duration_secs,
     last_activity |-> now,
     max_deposit |-> max_deposit,
     total_deposited |-> 0,
     total_spent |-> 0]

\* the Session returned by SessionManager::create_session
NewSession(id, parent_wallet, ephemeral, session_duration_secs, max_deposit) ==
    [id |-> id,
     parent_wallet |-> parent_wallet,
     ephemeral_wallet |-> ephemeral,
     vault_pubkey |-> None,
     status |-> "Created",
     session_start |-> now,
     session_expiry |-> now + session_duration_secs,
     last_activity |-> now,
     max_deposit |-> max_deposit,
     total_deposited |-> 0,
     total_spent |-> 0]

\* mutant: the UPDATE sets the status and leaves vault_pubkey alone
mark_active_NoVault(store, session_id, vault_pubkey) ==
    IF IsSome(store[session_id])
    THEN [store EXCEPT ![session_id] =
             Some([Unwrap(@) EXCEPT !.status = "ACTIVE", !.last_activity = now])]
    ELSE store

\* SessionManager::mark_active: UPDATE sessions SET status = 'ACTIVE',
\* vault_pubkey = $2, last_activity = $3 WHERE id = $1
mark_active(store, session_id, vault_pubkey) ==
    IF IsSome(store[session_id])
    THEN [store EXCEPT ![session_id] =
             Some([Unwrap(@) EXCEPT !.status = "ACTIVE",
                                    !.vault_pubkey = Some(vault_pubkey),
                                    !.last_activity = now])]
    ELSE store

\* SessionManager::revoke: UPDATE sessions SET status = 'REVOKED',
\* last_activity = $2 WHERE id = $1
revoke(store, session_id) ==
    IF IsSome(store[session_id])
    THEN [store EXCEPT ![session_id] =
             Some([Unwrap(@) EXCEPT !.status = "REVOKED", !.last_activity = now])]
    ELSE store

\* SessionManager::get: SELECT ... WHERE id = $1, the row as a Session
get(store, session_id) ==
    IF IsSome(store[session_id])
    THEN LET row == Unwrap(store[session_id])
         IN  Some([id |-> session_id,
                   parent_wallet |-> row.parent_wallet,
                   ephemeral_wallet |-> row.ephemeral_wallet,
                   vault_pubkey |-> row.vault_pubkey,
                   status |-> ParseStatus(row.status),
                   session_start |-> row.session_start,
                   session_expiry |-> row.session_expiry,
                   last_activity |-> row.last_activity,
                   max_deposit |-> row.max_deposit,
                   total_deposited |-> row.total_deposited,
                   total_spent |-> row.total_spent])
    ELSE None

\* the status column of a row, "-" where there is no row
StatusOf(store, session_id) ==
    IF IsSome(store[session_id]) THEN Unwrap(store[session_id]).status ELSE "-"

\* history: the statement, the row it addressed, the status before and after
Statement(op, session_id, store_after) ==
    [op |-> op, id |-> session_id,
     before |-> StatusOf(sessions, session_id),
     after |-> StatusOf(store_after, session_id)]

\* SessionEvent
Event(type, session) == [type |-> type, data |-> session]

MirrorFrame == UNCHANGED <<vars, heartbeat, codec, deposit>>

\* ---- POST /session/create ------------------------------------------------
\* the request arrives; a parent_wallet that does not parse is BAD_REQUEST
CreateSessionArrive(h) ==
    /\ handler[h] = Idle
    /\ served < MaxRequests
    /\ Cardinality({id \in SessionIds : IsSome(sessions[id])})
         + Cardinality({g \in Handlers : handler[g].pc = "insert"}) < MaxSessions
    /\ \E str \in WalletStrings, d \in SessionDurations, m \in SessionDeposits :
          handler' = [handler EXCEPT ![h] =
              IF IsSome(ParsePubkey(str))
              THEN [pc |-> "insert", parent_wallet |-> Unwrap(ParsePubkey(str)),
                    session_duration_secs |-> d, max_deposit |-> m]
              ELSE Idle]
    /\ served' = served + 1
    /\ UNCHANGED <<sessions, feed, applied>>
    /\ MirrorFrame

\* SessionManager::create_session: a fresh id and keypair, the INSERT
CreateSessionInsert(h) ==
    /\ handler[h].pc = "insert"
    /\ \E id \in {i \in SessionIds : ~IsSome(sessions[i])}, ephemeral \in {"E"} :
          LET r == handler[h]
              store == [sessions EXCEPT ![id] =
                           Some(NewRow(r.parent_wallet, ephemeral,
                                       r.session_duration_secs, r.max_deposit))]
          IN  /\ sessions' = store
              /\ applied' = Append(applied, Statement("insert", id, store))
              /\ handler' = [handler EXCEPT ![h] =
                    [pc |-> "send_created",
                     event |-> Event("Created",
                                  NewSession(id, r.parent_wallet, ephemeral,
                                             r.session_duration_secs, r.max_deposit))]]
    /\ UNCHANGED <<served, feed>>
    /\ MirrorFrame

\* tx_events.send(SessionEvent::Created(session)), the response
CreateSessionSend(h) ==
    /\ handler[h].pc = "send_created"
    /\ feed' = Append(feed, handler[h].event)
    /\ handler' = [handler EXCEPT ![h] = Idle]
    /\ UNCHANGED <<sessions, served, applied>>
    /\ MirrorFrame

\* ---- POST /session/approve -----------------------------------------------
\* the request arrives; a vault_pubkey that does not parse is BAD_REQUEST
ApproveSessionArrive(h) ==
    /\ handler[h] = Idle
    /\ served < MaxRequests
    /\ \E id \in KnownIds(sessions), str \in VaultStrings :
          handler' = [handler EXCEPT ![h] =
              IF IsSome(ParsePubkey(str))
              THEN [pc |-> "mark_active", session_id |-> id,
                    vault_pubkey |-> Unwrap(ParsePubkey(str))]
              ELSE Idle]
    /\ served' = served + 1
    /\ UNCHANGED <<sessions, feed, applied>>
    /\ MirrorFrame

\* sm.mark_active(req.session_id, vault_pubkey)
ApproveSessionMarkActive(h) ==
    /\ handler[h].pc = "mark_active"
    /\ LET r == handler[h]
           store == mark_active(sessions, r.session_id, r.vault_pubkey)
       IN  /\ sessions' = store
           /\ applied' = Append(applied, Statement("mark_active", r.session_id, store))
           /\ handler' = [handler EXCEPT ![h] =
                 [pc |-> "get_active", session_id |-> r.session_id]]
    /\ UNCHANGED <<served, feed>>
    /\ MirrorFrame

\* sm.get(req.session_id): NOT_FOUND when there is no row
ApproveSessionGet(h) ==
    /\ handler[h].pc = "get_active"
    /\ LET session == get(sessions, handler[h].session_id)
       IN  handler' = [handler EXCEPT ![h] =
               IF IsSome(session)
               THEN [pc |-> "send_active", event |-> Event("Active", Unwrap(session))]
               ELSE Idle]
    /\ UNCHANGED <<sessions, served, feed, applied>>
    /\ MirrorFrame

\* tx_events.send(SessionEvent::Active(session)), the response
ApproveSessionSend(h) ==
    /\ handler[h].pc = "send_active"
    /\ feed' = Append(feed, handler[h].event)
    /\ handler' = [handler EXCEPT ![h] = Idle]
    /\ UNCHANGED <<sessions, served, applied>>
    /\ MirrorFrame

\* ---- POST /session/revoke ------------------------------------------------
RevokeSessionArrive(h) ==
    /\ handler[h] = Idle
    /\ served < MaxRequests
    /\ \E id \in KnownIds(sessions) :
          handler' = [handler EXCEPT ![h] = [pc |-> "revoke", session_id |-> id]]
    /\ served' = served + 1
    /\ UNCHANGED <<sessions, feed, applied>>
    /\ MirrorFrame

\* sm.revoke(req.session_id)
RevokeSessionRevoke(h) ==
    /\ handler[h].pc = "revoke"
    /\ LET r == handler[h]
           store == revoke(sessions, r.session_id)
       IN  /\ sessions' = store
           /\ applied' = Append(applied, Statement("revoke", r.session_id, store))
           /\ handler' = [handler EXCEPT ![h] =
                 [pc |-> "get_revoked", session_id |-> r.session_id]]
    /\ UNCHANGED <<served, feed>>
    /\ MirrorFrame

\* sm.get(req.session_id): NOT_FOUND when there is no row
RevokeSessionGet(h) ==
    /\ handler[h].pc = "get_revoked"
    /\ LET session == get(sessions, handler[h].session_id)
       IN  handler' = [handler EXCEPT ![h] =
               IF IsSome(session)
               THEN [pc |-> "send_revoked", event |-> Event("Revoked", Unwrap(session))]
               ELSE Idle]
    /\ UNCHANGED <<sessions, served, feed, applied>>
    /\ MirrorFrame

\* tx_events.send(SessionEvent::Revoked(session)), the response
RevokeSessionSend(h) ==
    /\ handler[h].pc = "send_revoked"
    /\ feed' = Append(feed, handler[h].event)
    /\ handler' = [handler EXCEPT ![h] = Idle]
    /\ UNCHANGED <<sessions, served, applied>>
    /\ MirrorFrame

CreateSession == \E h \in Handlers :
    CreateSessionArrive(h) \/ CreateSessionInsert(h) \/ CreateSessionSend(h)

ApproveSession == \E h \in Handlers :
    \/ ApproveSessionArrive(h)
    \/ ApproveSessionMarkActive(h)
    \/ ApproveSessionGet(h)
    \/ ApproveSessionSend(h)

RevokeSession == \E h \in Handlers :
    \/ RevokeSessionArrive(h)
    \/ RevokeSessionRevoke(h)
    \/ RevokeSessionGet(h)
    \/ RevokeSessionSend(h)

NextMirror == CreateSession \/ ApproveSession \/ RevokeSession

\* the service alone, from an empty sessions table
SpecMirror == Init /\ [][NextMirror]_all_vars

(***************************************************************************)
(* SessionManager's statements as functions of the table: the table starts *)
(* with the row of one session in any status the status column and         *)
(* SessionStatus admit, and the statements are applied to it directly.     *)
(***************************************************************************)
\* statements applied in one behaviour
MaxStatements == 2

\* the status column of a stored row (SessionStatus, as written by the service)
StatusColumns == {"CREATED", "ACTIVE", "REVOKED", "EXPIRED", "CLEANED"}

\* a stored row: CREATED rows have no vault_pubkey yet, ACTIVE rows have one
StoredRows ==
    {[NewRow("P", "E", 1, 12000) EXCEPT !.status = c, !.vault_pubkey = v] :
        <<c, v>> \in {cv \in StatusColumns \X {None, Some(VaultAddr)} :
                        /\ cv[1] = "CREATED" => cv[2] = None
                        /\ cv[1] = "ACTIVE" => cv[2] # None}}

InitStore ==
    /\ InitLedger
    /\ \E row \in StoredRows :
          sessions = [id \in SessionIds \cup {UnknownSession} |->
                         IF id = 1 THEN Some(row) ELSE None]
    /\ handler = [h \in Handlers |-> Idle]
    /\ served = 0
    /\ feed = <<>>
    /\ applied = <<>>
    /\ heartbeat = 0
    /\ codec = NoCodec
    /\ deposit = NoDeposit

StoreFrame == UNCHANGED <<vars, handler, served, feed, heartbeat, codec, deposit>>

StoreMarkActive ==
    /\ Len(applied) < MaxStatements
    /\ \E id \in KnownIds(sessions), vault_pubkey \in {VaultAddr, "X"} :
          LET store == mark_active(sessions, id, vault_pubkey)
          IN  /\ sessions' = store
              /\ applied' = Append(applied, Statement("mark_active", id, store))
    /\ StoreFrame

StoreRevoke ==
    /\ Len(applied) < MaxStatements
    /\ \E id \in KnownIds(sessions) :
          LET store == revoke(sessions, id)
          IN  /\ sessions' = store
              /\ applied' = Append(applied, Statement("revoke", id, store))
    /\ StoreFrame

NextStore == StoreMarkActive \/ StoreRevoke

SpecStore == InitStore /\ [][NextStore]_all_vars

(***************************************************************************)
(* The service beside the ledger: create and approve requests served one   *)
(* at a time, the ledger's create_vault, the clock, and VaultMonitor::run. *)
(* Every request accepted is served to its end and the monitor's interval  *)
(* keeps firing (weak fairness); nothing obliges a client to send one.     *)
(***************************************************************************)
\* the heartbeat counts the monitor's log lines modulo this
HeartbeatWrap == 2

\* VaultMonitor::run, one turn of the loop: interval.tick(), then the heartbeat
\* log line; the sessions table and the ledger are not looked at
VaultMonitorRun ==
    /\ heartbeat' = (heartbeat + 1) % HeartbeatWrap
    /\ UNCHANGED <<vars, sessions, handler, served, feed, applied, codec, deposit>>

\* a step of a request in flight in handler h
Serve(h) ==
    \/ CreateSessionInsert(h)
    \/ CreateSessionSend(h)
    \/ ApproveSessionMarkActive(h)
    \/ ApproveSessionGet(h)
    \/ ApproveSessionSend(h)

\* a request arrives at handler h
Arrive(h) ==
    \/ CreateSessionArrive(h)
    \/ ApproveSessionArrive(h)

NextSystem ==
    \/ Arrive(1)
    \/ Serve(1)
    \/ VaultMonitorRun
    \/ Tick
    \/ CreateVault

SpecSystem ==
    /\ Init
    /\ [][NextSystem]_all_vars
    /\ WF_all_vars(Serve(1))
    /\ WF_all_vars(VaultMonitorRun)

(***************************************************************************)
(* The custody codec (transaction_signer.rs): encrypt_keypair and          *)
(* decrypt_keypair as functions of byte strings.  The primitives are       *)
(* modelled by what they do to the bytes: PBKDF2 as a deterministic        *)
(* function of salt and passphrase, AES-256-GCM as a keyed, invertible     *)
(* byte-wise cipher followed by a keyed tag over the ciphertext, base64    *)
(* (STANDARD_NO_PAD) bit for bit.                                          *)
(***************************************************************************)
\* the keypairs Keypair::generate can return in the model
MaxSeeds == 16

\* ed25519 keypair: 32 secret bytes then 32 public bytes
SECRET_KEY_LENGTH == 32

KEYPAIR_LENGTH == 64

\* aead::AES_256_GCM.tag_len()
TAG_LEN == 16

\* aead::NONCE_LEN
NONCE_LEN == 12

\* the passphrases (kek), as bytes
Passphrases == {<<107>>, <<107, 101>>, <<107, 101, 107>>}

Ok(value) == [ok |-> TRUE, value |-> value]

Err(context) == [ok |-> FALSE, context |-> context]

RECURSIVE SumBytes(_)
SumBytes(bytes) ==
    IF bytes = <<>> THEN 0 ELSE bytes[1] + SumBytes(Tail(bytes))

\* the public half of a keypair, a function of the secret half
PublicOf(secret) == [i \in 1..SECRET_KEY_LENGTH |-> (secret[i] * 3 + i) % 256]

\* Keypair::generate, by the seed of the random generator
generate(seed) ==
    LET secret == [i \in 1..SECRET_KEY_LENGTH |-> (seed * 17 + i * 5) % 256]
    IN  [secret |-> secret, public |-> PublicOf(secret)]

\* Keypair::to_bytes
to_bytes(keypair) == keypair.secret \o keypair.public

\* Keypair::from_bytes
from_bytes(bytes) ==
    IF Len(bytes) # KEYPAIR_LENGTH THEN Err("invalid keypair bytes")
    ELSE LET secret == SubSeq(bytes, 1, SECRET_KEY_LENGTH)
             public == SubSeq(bytes, SECRET_KEY_LENGTH + 1, KEYPAIR_LENGTH)
         IN  IF public # PublicOf(secret) THEN Err("invalid keypair bytes")
             ELSE Ok([secret |-> secret, public |-> public])

\* b"evs-key-salt"
salt == <<101, 118, 115, 45, 107, 101, 121, 45, 115, 97, 108, 116>>

\* ring::pbkdf2::derive(PBKDF2_HMAC_SHA256, 100_000, salt, kek_bytes, &mut key)
pbkdf2_derive(iterations, salt_bytes, kek_bytes) ==
    [i \in 1..32 |->
        (SumBytes(kek_bytes) * (i + Len(kek_bytes)) + SumBytes(salt_bytes) + iterations) % 256]

\* [0u8; 12]
nonce == [i \in 1..NONCE_LEN |-> 0]

\* the cipher's key stream for a buffer of n bytes
KeyStream(key, n) ==
    [i \in 1..n |-> (key[((i - 1) % 32) + 1] + nonce[((i - 1) % NONCE_LEN) + 1] + i) % 256]

\* the authentication tag over the ciphertext
Tag(key, ciphertext) ==
    [j \in 1..TAG_LEN |-> (SumBytes(ciphertext) + key[j] * j + Len(ciphertext)) % 256]

\* LessSafeKey::seal_in_place_append_tag: the whole buffer is encrypted in
\* place and the tag is appended to it
seal_in_place_append_tag(key, in_out) ==
    LET ciphertext == [i \in 1..Len(in_out) |->
                          (in_out[i] + KeyStream(key, Len(in_out))[i]) % 256]
    IN  ciphertext \o Tag(key, ciphertext)

\* LessSafeKey::open_in_place: the buffer is ciphertext then tag; the plaintext
\* is returned when the tag verifies
open_in_place(key, in_out) ==
    IF Len(in_out) < TAG_LEN THEN Err("failed to decrypt keypair")
    ELSE LET n == Len(in_out) - TAG_LEN
             ciphertext == SubSeq(in_out, 1, n)
         IN  IF SubSeq(in_out, n + 1, Len(in_out)) # Tag(key, ciphertext)
             THEN Err("failed to decrypt keypair")
             ELSE Ok([i \in 1..n |->
                        (ciphertext[i] + 256 - KeyStream(key, n)[i]) % 256])

\* the base64 alphabet (STANDARD)
Alphabet ==
    <<"A", "B", "C", "D", "E", "F", "G", "H", "I", "J", "K", "L", "M", "N", "O", "P",
      "Q", "R", "S", "T", "U", "V", "W", "X", "Y", "Z", "a", "b", "c", "d", "e", "f",
      "g", "h", "i", "j", "k", "l", "m", "n", "o", "p", "q", "r", "s", "t", "u", "v",
      "w", "x", "y", "z", "0", "1", "2", "3", "4", "5", "6", "7", "8", "9", "+", "/">>

Sextet(char) == (CHOOSE i \in 1..64 : Alphabet[i] = char) - 1

\* general_purpose::STANDARD_NO_PAD.encode
RECURSIVE b64_encode(_)
b64_encode(bytes) ==
    IF Len(bytes) = 0 THEN <<>>
    ELSE IF Len(bytes) = 1
    THEN <<Alphabet[(bytes[1] \div 4) + 1], Alphabet[(bytes[1] % 4) * 16 + 1]>>
    ELSE IF Len(bytes) = 2
    THEN <<Alphabet[(bytes[1] \div 4) + 1],
           Alphabet[(bytes[1] % 4) * 16 + (bytes[2] \div 16) + 1],
           Alphabet[(bytes[2] % 16) * 4 + 1]>>
    ELSE <<Alphabet[(bytes[1] \div 4) + 1],
           Alphabet[(bytes[1] % 4) * 16 + (bytes[2] \div 16) + 1],
           Alphabet[(bytes[2] % 16) * 4 + (bytes[3] \div 64) + 1],
           Alphabet[(bytes[3] % 64) + 1]>>
         \o b64_encode(SubSeq(bytes, 4, Len(bytes)))

\* the bytes of a text of sextets; a last group of 2 or 3 sextets carries 1 or 2
RECURSIVE DecodeSextets(_)
DecodeSextets(s) ==
    IF Len(s) = 0 THEN <<>>
    ELSE IF Len(s) = 2 THEN <<s[1] * 4 + (s[2] \div 16)>>
    ELSE IF Len(s) = 3 THEN <<s[1] * 4 + (s[2] \div 16), (s[2] % 16) * 16 + (s[3] \div 4)>>
    ELSE <<s[1] * 4 + (s[2] \div 16), (s[2] % 16) * 16 + (s[3] \div 4), (s[3] % 4) * 64 + s[4]>>
         \o DecodeSextets(SubSeq(s, 5, Len(s)))

\* general_purpose::STANDARD_NO_PAD.decode: a symbol outside the alphabet, a
\* length of 1 modulo 4 or non-zero trailing bits are errors
b64_decode(text) ==
    IF \E i \in 1..Len(text) : \A k \in 1..64 : Alphabet[k] # text[i] THEN Err("invalid base64")
    ELSE LET s == [i \in 1..Len(text) |-> Sextet(text[i])]
         IN  IF Len(s) % 4 = 1 THEN Err("invalid base64")
             ELSE IF Len(s) % 4 = 2 /\ s[Len(s)] % 16 # 0 THEN Err("invalid base64")
             ELSE IF Len(s) % 4 = 3 /\ s[Len(s)] % 4 # 0 THEN Err("invalid base64")
             ELSE Ok(DecodeSextets(s))

\* encrypt_keypair: the serialized keypair is extended by tag_len zero bytes,
\* sealed, and encoded
encrypt_keypair(keypair, kek) ==
    LET serialized == to_bytes(keypair)
        key == pbkdf2_derive(100000, salt, kek)
        in_out == serialized \o [i \in 1..TAG_LEN |-> 0]
    IN  Ok(b64_encode(seal_in_place_append_tag(key, in_out)))

\* the plaintext decrypt_keypair hands to Keypair::from_bytes
decrypt_plaintext(ciphertext_b64, kek) ==
    LET ciphertext == b64_decode(ciphertext_b64)
    IN  IF ~ciphertext.ok THEN ciphertext
        ELSE open_in_place(pbkdf2_derive(100000, salt, kek), ciphertext.value)

\* decrypt_keypair
decrypt_keypair(ciphertext_b64, kek) ==
    LET plaintext == decrypt_plaintext(ciphertext_b64, kek)
    IN  IF ~plaintext.ok THEN plaintext ELSE from_bytes(plaintext.value)

\* a keypair has been generated and a passphrase configured
InitCodec ==
    /\ InitLedger
    /\ InitMirror
    /\ deposit = NoDeposit
    /\ \E seed \in 0..(MaxSeeds - 1), kek \in Passphrases :
          codec = [pc |-> "generated", keypair |-> generate(seed), kek |-> kek]

Encrypt ==
    /\ codec.pc = "generated"
    /\ codec' = [pc |-> "sealed", keypair |-> codec.keypair, kek |-> codec.kek,
                 encrypted |-> encrypt_keypair(codec.keypair, codec.kek)]
    /\ UNCHANGED <<vars, mirror_vars, deposit>>

Decrypt ==
    /\ codec.pc = "sealed"
    /\ codec.encrypted.ok
    /\ \E kek \in Passphrases :
          codec' = [pc |-> "opened", keypair |-> codec.keypair, kek |-> codec.kek,
                    encrypted |-> codec.encrypted, kek_open |-> kek,
                    plaintext |-> decrypt_plaintext(codec.encrypted.value, kek),
                    decrypted |-> decrypt_keypair(codec.encrypted.value, kek)]
    /\ UNCHANGED <<vars, mirror_vars, deposit>>

NextCodec == Encrypt \/ Decrypt

SpecCodec == InitCodec /\ [][NextCodec]_all_vars

(***************************************************************************)
(* Deposit scheduling (auto_deposit.rs, api.rs): the fee calculator and    *)
(* POST /session/deposit.  Fees are in lamports and the products are       *)
(* checked against MaxU64.                                                 *)
(***************************************************************************)
PriorityLevel == {"Low", "Medium", "High"}

\* min_trades_buffer of the requests and num_trades of the calculator's calls
TradeCounts == {0, 1, 2, 3, 5, 6, 10, 11}

checked_mul(a, b) == IF a * b <= MaxU64 THEN Some(a * b) ELSE None

estimate_fee_per_trade(priority) ==
    CASE priority = "Low" -> 5000
      [] priority = "Medium" -> 10000
      [] priority = "High" -> 25000

compute_deposit_for_trades(num_trades, priority) ==
    LET per_trade == estimate_fee_per_trade(priority)
        product == checked_mul(num_trades, per_trade)
    IN  IF IsSome(product) THEN Ok(Unwrap(product))
        ELSE Err("fee calculation overflow")

DepositFrame == UNCHANGED <<vars, mirror_vars, codec>>

\* a POST /session/deposit whose body parses as SessionDepositRequest
SessionDepositArrive ==
    /\ deposit.pc \in {"idle", "done"}
    /\ \E session_id \in SessionIds \cup {UnknownSession},
          min_trades_buffer \in TradeCounts, priority \in PriorityLevel :
          deposit' = [deposit EXCEPT
              !.pc = "session_deposit",
              !.request = Some([session_id |-> session_id,
                                min_trades_buffer |-> min_trades_buffer,
                                priority |-> priority]),
              !.response = None,
              !.amount = None]
    /\ DepositFrame

\* session_deposit: neither the state nor the request is read; the response is
\* (StatusCode::ACCEPTED, "scheduled") and no amount is produced
session_deposit ==
    /\ deposit.pc = "session_deposit"
    /\ deposit' = [deposit EXCEPT
           !.pc = "done",
           !.response = Some([status |-> "ACCEPTED", body |-> "scheduled"])]
    /\ DepositFrame

\* a call of AutoDepositCalculator::compute_deposit_for_trades
ComputeDeposit ==
    /\ \E num_trades \in TradeCounts, priority \in PriorityLevel :
          deposit' = [deposit EXCEPT
              !.computed = Some([num_trades |-> num_trades, priority |-> priority,
                                 result |-> compute_deposit_for_trades(num_trades, priority)])]
    /\ DepositFrame

NextDeposit == SessionDepositArrive \/ session_deposit \/ ComputeDeposit

SpecDeposit ==
    /\ Init
    /\ [][NextDeposit]_all_vars
    /\ WF_all_vars(session_deposit)

(***************************************************************************)
(* Properties.  A step of instruction op is a step that leaves the clock   *)
(* alone and ends with the outcome of op.                                  *)
(***************************************************************************)
OpStep(op) == now' = now /\ last'.op = op
OpOk(op) == OpStep(op) /\ last'.err = "Ok"
OpFailed(op) == OpStep(op) /\ last'.err # "Ok"

\* errors raised before the handler body runs (account validation)
AccountErrors == {"AccountNotInitialized", "ConstraintHasOne", "AlreadyInUse"}

\* ---- C1 ----------------------------------------------------------------
TotalDepositedWithinMax ==
    IsSome(vault) => Unwrap(vault).total_deposited <= Unwrap(vault).max_deposit

AutoDepositStepOk ==
    OpOk("auto_deposit") =>
        /\ Unwrap(vault).total_deposited + last'.event.amount <= Unwrap(vault).max_deposit
        /\ Unwrap(vault).total_deposited + last'.event.amount <= MaxU64
        /\ Unwrap(vault').total_deposited
              = Unwrap(vault).total_deposited + last'.event.amount

AutoDepositStepRejected ==
    OpFailed("auto_deposit") => UNCHANGED <<vault, delegation, lamports>>

\* every amount that would pass max_deposit or overflow is refused
AutoDepositOverCapRefused ==
    \A p \in Keys, a \in Amounts :
        (IsSome(vault) /\ Unwrap(vault).total_deposited + a > Unwrap(vault).max_deposit)
            => auto_deposit_err(p, a) # "Ok"

\* C1: total_deposited never exceeds max_deposit; an auto_deposit that would pass
\* max_deposit (or overflow u64) is rejected and leaves totals and balances unchanged.
C1_DepositCap ==
    /\ [](TotalDepositedWithinMax /\ AutoDepositOverCapRefused)
    /\ [][AutoDepositStepOk /\ AutoDepositStepRejected]_vars

\* an auto_deposit was refused with OverDeposit on a vault that holds deposits
C1_Witness ==
    /\ last.op = "auto_deposit" /\ last.err = "OverDeposit"
    /\ IsSome(vault) /\ Unwrap(vault).total_deposited > 0

\* ---- C2 ----------------------------------------------------------------
TotalSpentWithinDeposited ==
    IsSome(vault) => Unwrap(vault).total_spent <= Unwrap(vault).total_deposited

ExecuteTradeStepOk ==
    OpOk("execute_trade") =>
        /\ Unwrap(vault).total_spent + last'.event.fee_paid
              <= Unwrap(vault).total_deposited
        /\ Unwrap(vault').total_spent
              = Unwrap(vault).total_spent + last'.event.fee_paid

ExecuteTradeStepRejected ==
    OpFailed("execute_trade") => UNCHANGED <<vault, delegation, lamports>>

\* the checks of execute_trade that precede the spending ceiling all pass
TradeReachesCeiling(e, pw) ==
    /\ IsSome(vault) /\ IsSome(delegation)
    /\ Unwrap(vault).parent_wallet = pw
    /\ Unwrap(vault).is_active /\ now <= Unwrap(vault).session_expiry
    /\ Unwrap(delegation).revoked_at = None
    /\ Unwrap(delegation).delegate = e

\* a fee above the ceiling is refused: MathOverflow when total_spent + fee_paid does
\* not fit u64, InsufficientVaultBalance otherwise
OverCeilingRefused ==
    \A e \in Keys, pw \in Keys, f \in Fees :
        (IsSome(vault) /\ Unwrap(vault).total_spent + f > Unwrap(vault).total_deposited)
            => /\ execute_trade_err(e, pw, f) # "Ok"
               /\ TradeReachesCeiling(e, pw) =>
                     execute_trade_err(e, pw, f)
                        = IF Unwrap(vault).total_spent + f > MaxU64
                          THEN "MathOverflow" ELSE "InsufficientVaultBalance"

\* C2 (amended): total_spent never exceeds total_deposited; an execute_trade whose
\* fee_paid would take total_spent above total_deposited is rejected and total_spent
\* is unchanged; when every earlier check passes the error is
\* InsufficientVaultBalance, or MathOverflow when the sum does not fit u64.
C2_SpendCeiling ==
    /\ [](TotalSpentWithinDeposited /\ OverCeilingRefused)
    /\ [][ExecuteTradeStepOk /\ ExecuteTradeStepRejected]_vars

\* a trade was refused with InsufficientVaultBalance after an earlier spend
C2_Witness ==
    /\ last.op = "execute_trade" /\ last.err = "InsufficientVaultBalance"
    /\ IsSome(vault) /\ Unwrap(vault).total_spent > 0

\* C2 as stated: a trade that passes every earlier check and is refused for its fee
\* is refused with InsufficientVaultBalance.
C2_Original ==
    (last.op = "execute_trade"
       /\ last.err \notin (AccountErrors \cup {"Ok", "VaultInactive", "SessionExpired",
              "InvalidDelegationAccount", "DelegationRevoked", "InvalidDelegate"}))
        => last.err = "InsufficientVaultBalance"

\* ---- C3 ----------------------------------------------------------------
\* C3: revoke_access succeeds only when the signer is the vault's parent_wallet
\* (AccessRevoked.parent is the key of the signing `parent` account).
C3_OnlyParentRevokes ==
    (last.op = "revoke_access" /\ last.err = "Ok" /\ IsSome(vault))
        => last.event.parent = Unwrap(vault).parent_wallet

\* ---- C4 ----------------------------------------------------------------
DelegationIsRevoked(d) == IsSome(d) /\ IsSome(Unwrap(d).revoked_at)

\* TradeExecuted.delegate is the key of the signing ephemeral account
TradeOnlyWhileDelegated ==
    OpOk("execute_trade") =>
        /\ IsSome(delegation)
        /\ Unwrap(delegation).revoked_at = None
        /\ Unwrap(delegation).delegate = last'.event.delegate

RevokeSetsRevokedAt == OpOk("revoke_access") => DelegationIsRevoked(delegation')

RevokedStaysRevoked == DelegationIsRevoked(delegation) => DelegationIsRevoked(delegation')

\* C4: execute_trade succeeds only while revoked_at is unset and the delegate is the
\* ephemeral signer; after a successful revoke_access no execute_trade succeeds again.
C4_RevokedForever ==
    [][TradeOnlyWhileDelegated /\ RevokeSetsRevokedAt /\ RevokedStaysRevoked]_vars

\* a trade on an active, funded vault was refused because the delegation is revoked
C4_Witness ==
    /\ last.op = "execute_trade" /\ last.err = "DelegationRevoked"
    /\ IsSome(vault) /\ Unwrap(vault).is_active
    /\ Unwrap(vault).total_deposited > 0

\* ---- C5 ----------------------------------------------------------------
\* C5 as stated: an active vault record is never past its expiry.
C5_Original ==
    (IsSome(vault) /\ Unwrap(vault).is_active) => now <= Unwrap(vault).session_expiry

\* C5 (amended): auto_deposit and execute_trade succeed only on a vault that is
\* active and not past session_expiry (is_active itself may stay true after expiry).
C5_ActiveWindow ==
    [][(OpOk("auto_deposit") \/ OpOk("execute_trade")) =>
          /\ IsSome(vault) /\ Unwrap(vault).is_active
          /\ now <= Unwrap(vault).session_expiry]_vars

\* a trade succeeded at the last instant of the session (now = session_expiry)
C5_Witness ==
    /\ last.op = "execute_trade" /\ last.err = "Ok"
    /\ IsSome(vault) /\ Unwrap(vault).is_active /\ now = Unwrap(vault).session_expiry
    /\ Unwrap(vault).total_spent > 0

\* ---- C6 ----------------------------------------------------------------
\* C6 as stated: once the record at the vault address has been inactive, the address
\* never holds an active record again.
C6_Original ==
    was_inactive => ~(IsSome(vault) /\ Unwrap(vault).is_active)

\* C6 (amended): an inactive vault record stays inactive for as long as the record
\* exists; only after cleanup_vault has destroyed it can create_vault initialise a
\* new, active record at the same address.
C6_InactiveWhileRecordLives ==
    [][(IsSome(vault) /\ ~Unwrap(vault).is_active /\ IsSome(vault'))
          => ~Unwrap(vault').is_active]_vars

\* create_vault was refused on an address that holds an inactive record
C6_Witness ==
    /\ last.op = "create_vault" /\ last.err = "AlreadyInUse"
    /\ IsSome(vault) /\ ~Unwrap(vault).is_active

\* ---- C7 ----------------------------------------------------------------
CleanupStepOk ==
    OpOk("cleanup_vault") => (IsSome(vault) /\ now >= Unwrap(vault).session_expiry)

CleanupStepRejected ==
    OpFailed("cleanup_vault") => UNCHANGED <<vault, delegation, lamports>>

\* before expiry every cleanup_vault is refused, with SessionNotExpired once the
\* accounts pass validation
CleanupEarlyRefused ==
    \A pw \in Keys :
        (IsSome(vault) /\ now < Unwrap(vault).session_expiry)
            => /\ cleanup_vault_err(pw) # "Ok"
               /\ pw = Unwrap(vault).parent_wallet
                     => cleanup_vault_err(pw) = "SessionNotExpired"

\* C7: cleanup_vault succeeds only when now >= session_expiry; earlier it fails with
\* SessionNotExpired and leaves the vault record and all balances unchanged.
C7_CleanupOnlyAfterExpiry ==
    /\ []CleanupEarlyRefused
    /\ [][CleanupStepOk /\ CleanupStepRejected]_vars

\* a cleanup of a funded, active vault was refused before expiry
C7_Witness ==
    /\ last.op = "cleanup_vault" /\ last.err = "SessionNotExpired"
    /\ IsSome(vault) /\ Unwrap(vault).is_active /\ now < Unwrap(vault).session_expiry
    /\ lamports[VaultAddr] > RentFloor

\* ---- C8 ----------------------------------------------------------------
\* lamports an account gains in a step
Gain(a) == lamports'[a] - lamports[a]

RECURSIVE SumGain(_)
SumGain(S) ==
    IF S = {} THEN 0
    ELSE LET a == CHOOSE x \in S : TRUE IN Gain(a) + SumGain(S \ {a})

\* C8: a successful cleanup_vault with `available` above the rent floor pays the
\* caller min(available, 10_000) and the vault's parent available minus that reward
\* (the rent floor released by the close comes on top), and the record is gone.
C8_CleanupPayout ==
    [][(OpOk("cleanup_vault") /\ Available(lamports) > 0) =>
          LET available == Available(lamports)
              reward == Min(available, MAX_CLEANUP_REWARD_LAMPORTS)
              vp == Unwrap(vault).parent_wallet
              caller == last'.event.cleaner
          IN /\ last'.event.reward = reward
             /\ caller # vp => Gain(caller) = reward
             /\ caller # vp => Gain(vp) = (available - reward) + RentFloor
             /\ caller = vp => Gain(vp) = available + RentFloor
             /\ vault' = None]_vars

\* ---- C9 ----------------------------------------------------------------
\* C9: in a successful cleanup_vault the accounts other than the vault's recorded
\* parent gain at most MAX_CLEANUP_REWARD_LAMPORTS in total.
C9_RewardBounded ==
    [][OpOk("cleanup_vault") =>
          SumGain(Keys \ {Unwrap(vault).parent_wallet})
              <= MAX_CLEANUP_REWARD_LAMPORTS]_vars

\* ---- C10 ---------------------------------------------------------------
\* with valid accounts revoke_access is decided by is_active alone
RevokeExactlyWhenActive ==
    \A p \in Keys, pw \in Keys :
        VaultDelegationAccountsErr(pw) = "Ok"
            => revoke_access_err(p, pw)
                  = IF Unwrap(vault).is_active THEN "Ok" ELSE "VaultInactive"

RevokeStepOk ==
    OpOk("revoke_access") =>
        LET v == Unwrap(vault)
            B == lamports[VaultAddr]
            swept == IF B > RentFloor THEN B - RentFloor ELSE 0
        IN /\ v.is_active
           /\ vault' = Some([v EXCEPT !.is_active = FALSE])
           /\ Unwrap(delegation').revoked_at = Some(now)
           /\ lamports'[VaultAddr] = B - swept
           /\ Gain(v.parent_wallet) = swept

\* C10: revoke_access succeeds exactly when the vault is active; it sets
\* is_active = false and revoked_at = now, moves max(B - F, 0) from the vault to the
\* parent, keeps the totals, and the record survives.
C10_RevokeEffect ==
    [][RevokeExactlyWhenActive /\ RevokeStepOk]_vars

\* ---- C11 ---------------------------------------------------------------
\* with valid accounts a delegate other than vault.ephemeral_wallet is refused with
\* InvalidDelegate, and the right delegate is accepted
ApproveOnlyEphemeral ==
    \A p \in Keys, d \in Keys :
        ApproveDelegateAccountsErr(p) = "Ok"
            => approve_delegate_err(p, d)
                  = IF d = Unwrap(vault).ephemeral_wallet THEN "Ok" ELSE "InvalidDelegate"

ApproveStepOk ==
    OpOk("approve_delegate") =>
        /\ delegation = None
        /\ IsSome(delegation')
        /\ Unwrap(delegation').delegate = Unwrap(vault).ephemeral_wallet
        /\ Unwrap(delegation').revoked_at = None

\* once the delegation record exists every approve_delegate fails and no step of
\* any instruction removes the record, replaces its delegate or clears revoked_at
DelegationRecordKept ==
    IsSome(delegation) =>
        /\ OpStep("approve_delegate") =>
              (last'.err # "Ok" /\ UNCHANGED <<vault, delegation, lamports>>)
        /\ IsSome(delegation')
        /\ Unwrap(delegation').delegate = Unwrap(delegation).delegate
        /\ Unwrap(delegation').approved_at = Unwrap(delegation).approved_at
        /\ IsSome(Unwrap(delegation).revoked_at) => IsSome(Unwrap(delegation').revoked_at)

\* C11: approve_delegate fails with InvalidDelegate unless delegate is the vault's
\* ephemeral_wallet; at most one delegation record ever exists at the address: after
\* a successful approve_delegate every later one fails and leaves the record alone.
C11_SingleDelegation ==
    /\ []ApproveOnlyEphemeral
    /\ [][ApproveStepOk /\ DelegationRecordKept]_vars

\* approve_delegate was refused on a vault whose delegation is already revoked
C11_Witness ==
    /\ last.op = "approve_delegate" /\ last.err = "AlreadyInUse"
    /\ IsSome(vault) /\ Unwrap(vault).is_active
    /\ DelegationIsRevoked(delegation)

\* ---- C12 ---------------------------------------------------------------
\* C12: while the vault record exists every create_vault for the pair fails and
\* leaves the record (expiry, max_deposit, totals, is_active) and balances unchanged.
C12_CreateRefusedWhileExists ==
    [][(OpStep("create_vault") /\ IsSome(vault)) =>
          /\ last'.err # "Ok"
          /\ UNCHANGED <<vault, delegation, lamports>>]_vars

\* create_vault was refused on an active vault that holds deposits and spends
C12_Witness ==
    /\ last.op = "create_vault" /\ last.err = "AlreadyInUse"
    /\ IsSome(vault) /\ Unwrap(vault).is_active
    /\ Unwrap(vault).total_spent > 0

(***************************************************************************)
(* Properties of the session mirror.                                       *)
(***************************************************************************)
\* this step is the database applying statement op to the row of session id
StatementStep(op, id) ==
    /\ Len(applied') = Len(applied) + 1
    /\ applied'[Len(applied')].op = op
    /\ applied'[Len(applied')].id = id

RowOf(store, id) == Unwrap(store[id])

\* ---- C13 ---------------------------------------------------------------
\* C13: mark_active changes a row only when its status is CREATED; applied to a
\* row that is ACTIVE, REVOKED, EXPIRED or CLEANED it leaves status and
\* vault_pubkey as they were, so a revoked session never becomes ACTIVE again.
C13_MarkActiveOnlyFromCreated ==
    [][\A id \in SessionIds :
          (/\ StatementStep("mark_active", id)
           /\ IsSome(sessions[id])
           /\ RowOf(sessions, id).status # "CREATED")
          => /\ RowOf(sessions', id).status = RowOf(sessions, id).status
             /\ RowOf(sessions', id).vault_pubkey = RowOf(sessions, id).vault_pubkey]_all_vars

\* ---- C14 ---------------------------------------------------------------
\* C14: in every reachable state of the sessions table no row has status ACTIVE
\* while its vault_pubkey is unset; the Session read back says the same.
C14_ActiveHasVault ==
    \A id \in SessionIds :
        IsSome(sessions[id]) =>
            /\ RowOf(sessions, id).status = "ACTIVE"
                  => IsSome(RowOf(sessions, id).vault_pubkey)
            /\ Unwrap(get(sessions, id)).status = "Active"
                  => IsSome(Unwrap(get(sessions, id)).vault_pubkey)

\* a row is ACTIVE with its vault_pubkey set after a revoke and a mark_active
\* were both applied to it
C14_Witness ==
    \E id \in SessionIds :
        /\ IsSome(sessions[id])
        /\ RowOf(sessions, id).status = "ACTIVE"
        /\ IsSome(RowOf(sessions, id).vault_pubkey)
        /\ \E i \in 1..Len(applied) : applied[i].op = "revoke" /\ applied[i].before = "CREATED"

\* ---- C15 ---------------------------------------------------------------
\* handlers g (approve) and h (revoke) are in flight together for session id and
\* the database has applied the statement of each
RaceSettled(g, h, id) ==
    /\ handler[g].pc = "get_active" /\ handler[g].session_id = id
    /\ handler[h].pc = "get_revoked" /\ handler[h].session_id = id
    /\ IsSome(sessions[id])

\* C15: when mark_active and revoke for one session run concurrently, the status
\* they leave is the same in whichever order the database applied the two
\* statements: the revoke wins (a mark_active after it changes nothing, a
\* mark_active before it is overwritten), so the row is REVOKED.
C15_RaceEndsRevoked ==
    \A g \in Handlers, h \in Handlers, id \in SessionIds :
        RaceSettled(g, h, id) => RowOf(sessions, id).status = "REVOKED"

\* ---- C20 ---------------------------------------------------------------
\* the events of one type broadcast for session id
Broadcast(type, id) ==
    {i \in 1..Len(feed) : feed[i].type = type /\ feed[i].data.id = id}

\* the statements that changed the status of session id to column
Transitions(column, id) ==
    {i \in 1..Len(applied) :
        /\ applied[i].id = id
        /\ applied[i].after = column
        /\ applied[i].before # column}

Quiescent == \A h \in Handlers : handler[h] = Idle

\* C20: the feed carries exactly one event per lifecycle transition and none
\* otherwise: once every request has been answered, the Created, Active and
\* Revoked events broadcast for a session are as many as the statements that
\* changed its status to that value.
C20_OneEventPerTransition ==
    Quiescent =>
        \A id \in SessionIds :
            /\ Cardinality(Broadcast("Created", id)) = Cardinality(Transitions("CREATED", id))
            /\ Cardinality(Broadcast("Active", id)) = Cardinality(Transitions("ACTIVE", id))
            /\ Cardinality(Broadcast("Revoked", id)) = Cardinality(Transitions("REVOKED", id))

C16_ActiveMeansVaultCreated ==
    \A id \in SessionIds :
        (IsSome(sessions[id]) /\ RowOf(sessions, id).status = "ACTIVE") =>
            /\ RowOf(sessions, id).vault_pubkey = Some(VaultAddr)
            /\ RowOf(sessions, id).parent_wallet = "P"
            /\ RowOf(sessions, id).ephemeral_wallet = "E"
            /\ created > 0

\* ---- C17 ---------------------------------------------------------------
\* the ledger vault of the row of session id, created with a positive duration,
\* is past its session_expiry
PastExpiry(id) ==
    /\ IsSome(sessions[id])
    /\ RowOf(sessions, id).vault_pubkey = Some(VaultAddr)
    /\ IsSome(vault)
    /\ Unwrap(vault).session_start < Unwrap(vault).session_expiry
    /\ now > Unwrap(vault).session_expiry

\* C17: while the monitor keeps running, every session that is not CLEANED and
\* whose ledger vault is past session_expiry eventually is CLEANED in the mirror.
C17_ExpiredEventuallyCleaned ==
    \A id \in SessionIds :
        (PastExpiry(id) /\ RowOf(sessions, id).status # "CLEANED")
            ~> (IsSome(sessions[id]) /\ RowOf(sessions, id).status = "CLEANED")

\* ---- C18 ---------------------------------------------------------------
\* C18: for every valid keypair and passphrase, decrypt_keypair of
\* encrypt_keypair under the same passphrase succeeds and returns the keypair:
\* the bytes handed to Keypair::from_bytes are the bytes that were serialized.
C18_RoundTrip ==
    (codec.pc = "opened" /\ codec.kek_open = codec.kek) =>
        /\ codec.plaintext = Ok(to_bytes(codec.keypair))
        /\ codec.decrypted = Ok(codec.keypair)

\* ---- C22 ---------------------------------------------------------------
LedgerOps ==
    {"create_vault", "approve_delegate", "auto_deposit", "execute_trade",
     "revoke_access", "cleanup_vault"}

\* the error codes of EphemeralVaultError
LedgerErrors ==
    {"MathOverflow", "SessionExpired", "SessionNotExpired", "VaultInactive",
     "InvalidDelegate", "InvalidDelegationAccount", "DelegationRevoked",
     "OverDeposit", "InsufficientVaultBalance"}

C23_InactiveFirst ==
    [][(IsSome(vault) /\ ~Unwrap(vault).is_active) =>
          /\ OpStep("execute_trade") => last'.err \in {"VaultInactive"} \cup AccountErrors
          /\ OpStep("auto_deposit") => last'.err \in {"VaultInactive"} \cup AccountErrors]_vars

\* execute_trade was refused with VaultInactive on a revoked vault that is also
\* past its expiry and whose delegation is revoked
C23_Witness ==
    /\ last.op = "execute_trade" /\ last.err = "VaultInactive"
    /\ IsSome(vault) /\ ~Unwrap(vault).is_active
    /\ now > Unwrap(vault).session_expiry
    /\ DelegationIsRevoked(delegation)

\* ---- C24 ---------------------------------------------------------------
EventOf(op) ==
    CASE op = "create_vault" -> "VaultCreated"
      [] op = "approve_delegate" -> "DelegateApproved"
      [] op = "auto_deposit" -> "AutoDeposit"
      [] op = "execute_trade" -> "TradeExecuted"
      [] op = "revoke_access" -> "AccessRevoked"
      [] op = "cleanup_vault" -> "VaultCleaned"

\* C24: every successful ledger transition emits the event of its kind, in
\* every vault state in which the operation succeeds.
C24_SuccessEmitsEvent ==
    [][\A op \in LedgerOps :
          OpOk(op) => last'.event # NoEvent /\ last'.event.name = EventOf(op)]_vars

\* ---- C25 ---------------------------------------------------------------
\* C25: a successful execute_trade is authorized by a delegation approved for
\* the present incarnation of the vault, that is, one approved no earlier than
\* the vault's session_start.
C25_DelegationOfThisVault ==
    [][OpOk("execute_trade") =>
          /\ IsSome(delegation)
          /\ Unwrap(delegation).approved_at >= Unwrap(vault).session_start]_vars

\* ---- C26 ---------------------------------------------------------------
\* C26: whenever a vault record exists with is_active = false there is a
\* delegation record with revoked_at set, and revoke_access never succeeds while
\* no delegation record exists.
C26_InactiveHasRevokedDelegation ==
    /\ (IsSome(vault) /\ ~Unwrap(vault).is_active) => DelegationIsRevoked(delegation)
    /\ (last.op = "revoke_access" /\ last.err = "Ok") => IsSome(delegation)

\* revoke_access succeeded and the vault record is still there, inactive
C26_Witness ==
    /\ last.op = "revoke_access" /\ last.err = "Ok"
    /\ IsSome(vault) /\ ~Unwrap(vault).is_active

\* a revoke_access was refused because no delegation record exists
C26_RefusedWithoutDelegation ==
    /\ last.op = "revoke_access" /\ last.err = "AccountNotInitialized"
    /\ IsSome(vault) /\ Unwrap(vault).is_active /\ delegation = None

\* ---- C27 ---------------------------------------------------------------
\* C27: a successful execute_trade changes nothing of the vault record but
\* total_spent and leaves every lamport balance and the delegation record
\* unchanged; and an active vault always holds exactly the rent floor plus
\* total_deposited, whatever total_spent is.
C27_TradeOnlySpends ==
    [][/\ OpOk("execute_trade") =>
             /\ UNCHANGED <<lamports, delegation>>
             /\ IsSome(vault')
             /\ [Unwrap(vault') EXCEPT !.total_spent = 0]
                   = [Unwrap(vault) EXCEPT !.total_spent = 0]
       /\ (IsSome(vault') /\ Unwrap(vault').is_active) =>
             lamports'[VaultAddr] = RentFloor + Unwrap(vault').total_deposited]_vars

\* a trade with a fee was recorded and the deposits are still all in the vault
C27_Witness ==
    /\ last.op = "execute_trade" /\ last.err = "Ok"
    /\ IsSome(vault) /\ Unwrap(vault).is_active
    /\ Unwrap(vault).total_spent > 0
    /\ lamports[VaultAddr] = RentFloor + Unwrap(vault).total_deposited

\* ---- C28 ---------------------------------------------------------------
FundOps == {"auto_deposit", "execute_trade", "revoke_access", "cleanup_vault"}

\* who may have called the cleanup of this step: VaultCleaned names the caller;
\* a cleanup that emitted nothing may have been called by anyone; the other
\* instructions have no cleanup caller
CleanupCallers ==
    IF last'.op # "cleanup_vault" THEN {Unwrap(vault).parent_wallet}
    ELSE IF last'.event # NoEvent THEN {last'.event.cleaner}
    ELSE Keys

\* every instruction credits exactly what it debits, over all accounts
LamportsConserved == [][SumGain(Accounts) = 0]_vars

\* C28: across auto_deposit, execute_trade, revoke_access and cleanup_vault the
\* lamports of the vault's parent, the vault and the cleanup caller sum to a
\* constant.
C28_FundsConserved ==
    [][\A op \in FundOps :
          (OpStep(op) /\ IsSome(vault)) =>
              \E c \in CleanupCallers :
                  SumGain({Unwrap(vault).parent_wallet, VaultAddr, c}) = 0]_vars


\* ---- C29 ---------------------------------------------------------------
\* C29: the session snapshot carried by every Active event on the feed has
\* status Active and the one carried by every Revoked event has status Revoked.
C29_SnapshotMatchesKind ==
    \A i \in 1..Len(feed) :
        /\ feed[i].type = "Active" => feed[i].data.status = "Active"
        /\ feed[i].type = "Revoked" => feed[i].data.status = "Revoked"

\* ---- C21 ---------------------------------------------------------------
\* the per-trade fees are ordered Low < Medium < High
FeeTiersOrdered ==
    /\ estimate_fee_per_trade("Low") < estimate_fee_per_trade("Medium")
    /\ estimate_fee_per_trade("Medium") < estimate_fee_per_trade("High")

\* the calculator returns the exact product when it fits u64 and an error
\* otherwise, never a wrapped or clamped value
DepositIsProduct ==
    IsSome(deposit.computed) =>
        LET c == Unwrap(deposit.computed)
            product == c.num_trades * estimate_fee_per_trade(c.priority)
        IN  /\ FeeTiersOrdered
            /\ product <= MaxU64 => c.result = Ok(product)
            /\ product > MaxU64 => ~c.result.ok

\* the calculator was called with a product that does not fit and refused
DepositOverflowRefused ==
    /\ IsSome(deposit.computed)
    /\ ~Unwrap(deposit.computed).result.ok
    /\ Unwrap(deposit.computed).num_trades
           * estimate_fee_per_trade(Unwrap(deposit.computed).priority) > MaxU64

Accepted ==
    /\ deposit.pc = "done"
    /\ Unwrap(deposit.response).status = "ACCEPTED"

\* the amount produced for the request is the calculator's for its inputs
Yielded ==
    /\ IsSome(deposit.request)
    /\ LET request == Unwrap(deposit.request)
           computed == compute_deposit_for_trades(request.min_trades_buffer,
                                                  request.priority)
       IN  computed.ok /\ deposit.amount = Some(computed.value)

\* C21: a request accepted by POST /session/deposit eventually yields the
\* deposit amount min_trades_buffer * per_trade_fee(priority).
C21_AcceptedYieldsAmount == Accepted ~> Yielded

====
